---- MODULE Spec2Model ----
(***************************************************************************)
(* Model of the signal engine of MarketPulse-AI (src/signal_engine.py,     *)
(* src/config.py): SignalEngine.generate_signal, _calculate_risk,          *)
(* _calculate_swing_trade_levels, update_rules, and the module-level       *)
(* generate_signal wrapper.                                                *)
(*                                                                         *)
(* Number representation:                                                  *)
(*   sentiment, MACD, %B, beta, debt/equity, change_percent : hundredths   *)
(*   RSI, %K, ADX, DI+/-, P/E, volumes, price inputs        : integers     *)
(*   buy_score, sell_score, confidence                      : doubles      *)
(*   plan price levels (entry, target, stop)                : 1e-5 of the  *)
(*                                                            price unit   *)
(* The scores are sums of Python floats and are compared with decimal      *)
(* thresholds, so their rounding decides the signal (0.25 + 0.1 + 0.05 +   *)
(* 0.05 is 0.44999999999999996, below 0.45).  A double is modelled as the  *)
(* pair [n, e]: n its decimal value in 1e-5 and e its distance from that   *)
(* decimal, see "IEEE-754 doubles" below.                                  *)
(* A dictionary entry is a cell [st, v]: st = "absent" (key missing),      *)
(* "none" (key present, value None) or "val" (value v).  For a sub-record  *)
(* (macd, bollinger, ...) "val" means "a dict"; its leaves are the cells   *)
(* of the keys below it.  Booleans are the values 1 (True) and 0 (False).  *)
(***************************************************************************)
EXTENDS Integers, Sequences, FiniteSets

VARIABLES snap, edited, SIGNAL_RULES, own_rules, rules_of, updates, result

vars == <<snap, edited, SIGNAL_RULES, own_rules, rules_of, updates, result>>

----------------------------------------------------------------------------
(* Python values *)

Absent == [st |-> "absent", v |-> 0]

None == [st |-> "none", v |-> 0]

Val(x) == [st |-> "val", v |-> x]

\* d.get(key): a missing key and a None value both read as None
IsNone(c) == c.st # "val"

\* Python truthiness of a number or bool: None and 0 are falsy
Truthy(c) == c.st = "val" /\ c.v # 0

\* sub.get(key) where sub = parent.get(name, {}): an absent sub-record reads as {}
Leaf(sub, c) == IF sub.st = "val" THEN c ELSE Absent

\* x.get(...) on a sub-record whose key is present with value None: AttributeError
GetOnNone(sub) == sub.st = "none"

Min(a, b) == IF a <= b THEN a ELSE b

Max(a, b) == IF a >= b THEN a ELSE b

RECURSIVE MaxOf(_)
MaxOf(q) == IF Len(q) = 1 THEN q[1] ELSE Max(q[1], MaxOf(Tail(q)))

Tags(q) == [i \in 1..Len(q) |-> q[i].tag]

Take(q, n) == SubSeq(q, 1, Min(n, Len(q)))

\* a fired condition: the reason appended and the amounts added to the score, in order
Cond(tag, pts) == <<[tag |-> tag, pts |-> pts]>>

RECURSIVE Points(_)
Points(q) == IF q = <<>> THEN <<>> ELSE q[1].pts \o Points(Tail(q))

----------------------------------------------------------------------------
(* IEEE-754 doubles.  The double x is the pair [n, e] of integers with     *)
(*     x * 3125 * 2^62  =  n * 2^57 + e                                    *)
(* so n is x in units of 1e-5 (1e-5 = 2^57 / (3125 * 2^62)) and e / 3125   *)
(* is the rounding error in units of 2^-62.  Every double below is a       *)
(* multiple of 2^-62 and lies in [0, 2): the scores, the confidence, and   *)
(* the MACD line and signal of the snapshots considered, whose difference  *)
(* is compared with 0.5 and 0.3.  The other comparisons are between        *)
(* integers, or between a double and a decimal it cannot round across,     *)
(* and the price levels of the plan are kept as exact decimals.            *)

\* 2^46 modulo 3125
Pow46 == ((2^23 % 3125) * (2^23 % 3125)) % 3125

\* n * 1e-5 + e / (3125 * 2^62) >= t * 1e-5
Reaches(n, e, t) == n > t \/ (n = t /\ e >= 0)

\* the spacing of the doubles around n * 1e-5, in units of 2^-62: 2^-52 in [1, 2),
\* halved with each binade below; multiples of 2^-58 below 2^-5 are all doubles
Ulp(n, e) ==
    IF Reaches(n, e, 100000) THEN 1024
    ELSE IF Reaches(n, e, 50000) THEN 512
    ELSE IF Reaches(n, e, 25000) THEN 256
    ELSE IF Reaches(n, e, 12500) THEN 128
    ELSE IF Reaches(n, e, 6250) THEN 64
    ELSE IF Reaches(n, e, 3125) THEN 32
    ELSE 16

\* the excess of n * 2^57 + e over the multiple of 3125 * U below it, for U = 2048 / k:
\* n * 2^57 modulo 3125 * U is U * ((n * 2^46 * k) modulo 3125)
Excess(n, e, U, k) == (U * (((n % 3125) * ((Pow46 * k) % 3125)) % 3125) + e) % (3125 * U)

\* r is the excess over the double below, r2 the excess over the even double below:
\* the nearer double, the even one on a tie
Nearest(n, e, U, r, r2) ==
    IF 2 * r < 3125 * U \/ (2 * r = 3125 * U /\ r2 < 3125 * U)
    THEN [n |-> n, e |-> e - r]
    ELSE [n |-> n, e |-> e - r + 3125 * U]

RoundTo(n, e, U) ==
    Nearest(n, e, U, Excess(n, e, U, 2048 \div U), Excess(n, e, 2 * U, 1024 \div U))

\* round the real number (n * 2^57 + e) / (3125 * 2^62) to the nearest double, ties to
\* the even one
Round(n, e) == RoundTo(n, e, Ulp(n, e))

\* the double a decimal literal denotes, n in 1e-5
Double(n) == Round(n, 0)

Zero == [n |-> 0, e |-> 0]

\* x + y
FAdd(x, y) == Round(x.n + y.n, x.e + y.e)

\* x < y
FLess(x, y) == x.n < y.n \/ (x.n = y.n /\ x.e < y.e)

\* abs(x - y)
FAbsDiff(x, y) ==
    IF FLess(x, y) THEN Round(y.n - x.n, y.e - x.e) ELSE Round(x.n - y.n, x.e - y.e)

\* x * 0.5, exact
Half(x) == [n |-> x.n \div 2, e |-> x.e \div 2]

\* min(x, y)
FMin(x, y) == IF FLess(y, x) THEN y ELSE x

\* Accumulate with "score = p" for "score += p": the last amount alone
AccumulateLast(score, pts) == IF pts = <<>> THEN score ELSE Double(pts[Len(pts)])

\* score = 0; score += p for each amount p
RECURSIVE Accumulate(_, _)
Accumulate(score, pts) ==
    IF pts = <<>> THEN score ELSE Accumulate(FAdd(score, Double(pts[1])), Tail(pts))

----------------------------------------------------------------------------
(* src/config.py: SIGNAL_RULES (thresholds in hundredths) *)

DefaultRules == [BUY |-> [sentiment_threshold |-> 30], SELL |-> [sentiment_threshold |-> -30]]

----------------------------------------------------------------------------
(* generate_signal: extraction of the locals (lines 48-90) *)

rsi(s) == s.rsi

macd_line(s) == Leaf(s.macd, s.macd_macd)

signal_line(s) == Leaf(s.macd, s.macd_signal)

macd_histogram(s) == Leaf(s.macd, s.macd_histogram)

\* sentiment_data.get('sentiment', {}).get('overall_score', 0.0) if success else 0.0
sentiment_score(s) ==
    IF ~Truthy(s.sent_success) THEN Val(0)
    ELSE IF Leaf(s.sentiment, s.overall_score).st = "absent" THEN Val(0)
    ELSE s.overall_score

current_price(s) == Leaf(s.price_data, s.price)

\* price_change_pct = 0 unless price_data is truthy; then .get('change_percent', 0)
price_change_pct(s) ==
    IF Leaf(s.price_data, s.change_percent).st = "absent" THEN Val(0) ELSE s.change_percent

volume(s) == Leaf(s.price_data, s.volume)

\* if stats_data and stats_data.get('success'): stats = stats_data.get('data', {})
StatsOn(s) == s.stats_data.st = "val" /\ Truthy(s.stats_success)

Stat(s, c) == IF StatsOn(s) THEN Leaf(s.data, c) ELSE Absent

beta(s) == Stat(s, s.beta)

pe_ratio(s) == Stat(s, s.trailingPE)

debt_to_equity(s) == Stat(s, s.debtToEquity)

fifty_two_week_high(s) == Stat(s, s.fiftyTwoWeekHigh)

fifty_two_week_low(s) == Stat(s, s.fiftyTwoWeekLow)

avg_volume(s) == Stat(s, s.averageVolume)

\* Python truthiness of a dict: non-empty
DictTruthy(sub, leaves) == sub.st = "val" /\ \E i \in 1..Len(leaves) : leaves[i].st # "absent"

BollingerTruthy(s) == DictTruthy(s.bollinger, <<s.percent_b, s.lower, s.upper>>)

StochasticTruthy(s) == DictTruthy(s.stochastic, <<s.k>>)

MaTruthy(s) ==
    DictTruthy(s.moving_averages, <<s.above_sma_20, s.above_sma_50, s.sma_20, s.sma_50>>)

AdxTruthy(s) == DictTruthy(s.adx, <<s.adx_adx, s.di_plus, s.di_minus>>)

\* bollinger.get('percent_b', 0.5)
percent_b(s) == IF s.percent_b.st = "absent" THEN Val(50) ELSE s.percent_b

\* PositionBelow with "else 0" for "else 0.5" on an empty range
PositionBelowElseZero(p, hi, lo, n) ==
    IF hi - lo > 0 THEN 10 * (p - lo) < n * (hi - lo) ELSE 0 < n

\* (current_price - low) / (high - low) if range > 0 else 0.5, compared with n/10
PositionBelow(p, hi, lo, n) == IF hi - lo > 0 THEN 10 * (p - lo) < n * (hi - lo) ELSE 5 < n

PositionAbove(p, hi, lo, n) == IF hi - lo > 0 THEN 10 * (p - lo) > n * (hi - lo) ELSE 5 > n

----------------------------------------------------------------------------
(* generate_signal: BUY side (lines 119-239).  Each fired condition is a   *)
(* pair [tag, pts]: the reason appended and the amounts added to buy_score *)
(* in 1e-5 (0.25 * 0.7 is the double 0.175: scaling by 0.25 is exact).     *)

BuySentiment(s, rules) ==
    LET sc == sentiment_score(s).v IN
    IF sc >= rules.BUY.sentiment_threshold THEN Cond("buy_sentiment_strong", <<20000>>)
    ELSE IF sc >= 10 THEN Cond("buy_sentiment_moderate", <<10000>>)
    ELSE <<>>

\* BuyRsi with a missing RSI read as 0 (technical_data.get('rsi', 0), no None test)
BuyRsiNoneAsZero(s) ==
    IF IsNone(rsi(s)) \/ rsi(s).v < 30 THEN Cond("buy_rsi_strongly_oversold", <<25000>>)
    ELSE IF rsi(s).v < 40 THEN Cond("buy_rsi_moderately_oversold", <<17500>>)
    ELSE IF rsi(s).v < 50 THEN Cond("buy_rsi_neutral_low", <<7500>>)
    ELSE <<>>

\* BuyRsi with "rsi <= 30" for "rsi < 30"
BuyRsiInclusive(s) ==
    IF IsNone(rsi(s)) THEN <<>>
    ELSE IF rsi(s).v <= 30 THEN Cond("buy_rsi_strongly_oversold", <<25000>>)
    ELSE IF rsi(s).v < 40 THEN Cond("buy_rsi_moderately_oversold", <<17500>>)
    ELSE IF rsi(s).v < 50 THEN Cond("buy_rsi_neutral_low", <<7500>>)
    ELSE <<>>

BuyRsi(s) ==
    IF IsNone(rsi(s)) THEN <<>>
    ELSE IF rsi(s).v < 30 THEN Cond("buy_rsi_strongly_oversold", <<25000>>)
    ELSE IF rsi(s).v < 40 THEN Cond("buy_rsi_moderately_oversold", <<17500>>)
    ELSE IF rsi(s).v < 50 THEN Cond("buy_rsi_neutral_low", <<7500>>)
    ELSE <<>>

\* abs(macd_line - signal_line) of the two doubles (given in hundredths)
MacdGap(s) == FAbsDiff(Double(macd_line(s).v * 1000), Double(signal_line(s).v * 1000))

\* BuyMacd with an absent signal line read as 0 (macd_data.get('signal', 0), no None test)
BuyMacdSignalDefault(s) ==
    IF IsNone(macd_line(s)) THEN <<>>
    ELSE IF ~(macd_line(s).v > signal_line(s).v) THEN <<>>
    ELSE (IF FLess(Double(50000), MacdGap(s))
             THEN Cond("buy_macd_strong_crossover", <<25000>>)
             ELSE Cond("buy_macd_bullish", <<15000>>))
         \o (IF Truthy(macd_histogram(s)) /\ macd_histogram(s).v > 0
                THEN Cond("buy_macd_histogram", <<5000>>)
                ELSE <<>>)

BuyMacd(s) ==
    IF IsNone(macd_line(s)) \/ IsNone(signal_line(s)) THEN <<>>
    ELSE IF ~(macd_line(s).v > signal_line(s).v) THEN <<>>
    ELSE (IF FLess(Double(50000), MacdGap(s))
             THEN Cond("buy_macd_strong_crossover", <<25000>>)
             ELSE Cond("buy_macd_bullish", <<15000>>))
         \o (IF Truthy(macd_histogram(s)) /\ macd_histogram(s).v > 0
                THEN Cond("buy_macd_histogram", <<5000>>)
                ELSE <<>>)

BuyMomentum(s) ==
    LET p == current_price(s) hi == fifty_two_week_high(s) lo == fifty_two_week_low(s) IN
    IF ~(Truthy(p) /\ Truthy(hi) /\ Truthy(lo)) THEN <<>>
    ELSE IF PositionBelow(p.v, hi.v, lo.v, 3) THEN Cond("buy_near_52w_low", <<15000>>)
    ELSE IF PositionBelow(p.v, hi.v, lo.v, 5) THEN Cond("buy_below_52w_midpoint", <<7500>>)
    ELSE <<>>

BuyValue(s) ==
    IF IsNone(pe_ratio(s)) THEN <<>>
    ELSE IF pe_ratio(s).v < 15 THEN Cond("buy_pe_attractive", <<10000>>)
    ELSE IF pe_ratio(s).v < 25 THEN Cond("buy_pe_reasonable", <<5000>>)
    ELSE <<>>

\* volume > avg_volume * 1.5
BuyVolume(s) ==
    IF Truthy(volume(s)) /\ Truthy(avg_volume(s)) /\ 2 * volume(s).v > 3 * avg_volume(s).v
    THEN Cond("buy_high_volume", <<5000>>)
    ELSE <<>>

BuyBollinger(s) ==
    IF ~(BollingerTruthy(s) /\ Truthy(current_price(s))) THEN <<>>
    ELSE IF percent_b(s).v < 20 THEN Cond("buy_bb_oversold", <<5000>>)
    ELSE IF percent_b(s).v < 40 THEN Cond("buy_bb_below_midpoint", <<2000>>)
    ELSE <<>>

BuyStochastic(s) ==
    IF ~StochasticTruthy(s) THEN <<>>
    ELSE IF Truthy(s.k) /\ s.k.v < 20 THEN Cond("buy_stochastic_oversold", <<5000>>)
    ELSE IF Truthy(s.k) /\ s.k.v < 40 THEN Cond("buy_stochastic_low", <<2000>>)
    ELSE <<>>

BuyMovingAverages(s) ==
    IF ~MaTruthy(s) THEN <<>>
    ELSE IF Truthy(s.above_sma_20) /\ Truthy(s.above_sma_50) THEN Cond("buy_above_sma_20_50", <<5000>>)
    ELSE IF Truthy(s.above_sma_20) THEN Cond("buy_above_sma_20", <<2000>>)
    ELSE <<>>

BuyAdx(s) ==
    IF AdxTruthy(s) /\ Truthy(s.adx_adx) /\ s.adx_adx.v > 25
       /\ Truthy(s.di_plus) /\ Truthy(s.di_minus) /\ s.di_plus.v > s.di_minus.v
    THEN Cond("buy_strong_uptrend", <<5000>>)
    ELSE <<>>

\* BuyConditions with the four bonus reasons put in front (buy_conditions =
\* additional_buy_signals + buy_conditions)
BuyConditionsBonusesFirst(s, rules) ==
    BuyBollinger(s) \o BuyStochastic(s) \o BuyMovingAverages(s) \o BuyAdx(s)
    \o BuySentiment(s, rules) \o BuyRsi(s) \o BuyMacd(s) \o BuyMomentum(s) \o BuyValue(s)
    \o BuyVolume(s)

BuyConditions(s, rules) ==
    BuySentiment(s, rules) \o BuyRsi(s) \o BuyMacd(s) \o BuyMomentum(s) \o BuyValue(s)
    \o BuyVolume(s)
    \o BuyBollinger(s) \o BuyStochastic(s) \o BuyMovingAverages(s) \o BuyAdx(s)

BuyScore(s, rules) == Accumulate(Zero, Points(BuyConditions(s, rules)))

----------------------------------------------------------------------------
(* generate_signal: SELL side (lines 241-350) *)

SellSentiment(s, rules) ==
    LET sc == sentiment_score(s).v IN
    IF sc <= rules.SELL.sentiment_threshold THEN Cond("sell_sentiment_negative", <<20000>>)
    ELSE IF sc <= -10 THEN Cond("sell_sentiment_moderate", <<10000>>)
    ELSE <<>>

\* SellRsi with the moderate tier opening at 40 instead of 60: it overlaps the BUY
\* side's "rsi < 50" tier
SellRsiFrom40(s) ==
    IF IsNone(rsi(s)) THEN <<>>
    ELSE IF rsi(s).v > 70 THEN Cond("sell_rsi_overbought", <<25000>>)
    ELSE IF rsi(s).v > 40 THEN Cond("sell_rsi_moderately_high", <<15000>>)
    ELSE <<>>

SellRsi(s) ==
    IF IsNone(rsi(s)) THEN <<>>
    ELSE IF rsi(s).v > 70 THEN Cond("sell_rsi_overbought", <<25000>>)
    ELSE IF rsi(s).v > 60 THEN Cond("sell_rsi_moderately_high", <<15000>>)
    ELSE <<>>

SellMacd(s) ==
    IF IsNone(macd_line(s)) \/ IsNone(signal_line(s)) THEN <<>>
    ELSE IF ~(macd_line(s).v < signal_line(s).v) THEN <<>>
    ELSE IF FLess(Double(50000), MacdGap(s))
         THEN Cond("sell_macd_strong_crossover", <<25000>>)
         ELSE Cond("sell_macd_bearish", <<15000>>)

SellOverextension(s) ==
    LET p == current_price(s) hi == fifty_two_week_high(s) lo == fifty_two_week_low(s) IN
    IF ~(Truthy(p) /\ Truthy(hi) /\ Truthy(lo)) THEN <<>>
    ELSE IF PositionAbove(p.v, hi.v, lo.v, 9) THEN Cond("sell_near_52w_high", <<15000>>)
    ELSE IF PositionAbove(p.v, hi.v, lo.v, 7) THEN Cond("sell_above_52w_midpoint", <<7500>>)
    ELSE <<>>

\* one reason line for the risk factors, sell_score += 0.15 * 0.5 for each factor
SellRisk(s) ==
    LET b == IF Truthy(beta(s)) /\ beta(s).v > 150 THEN <<7500>> ELSE <<>>
        d == IF Truthy(debt_to_equity(s)) /\ debt_to_equity(s).v > 200 THEN <<7500>> ELSE <<>>
    IN  IF b \o d # <<>> THEN Cond("sell_risk_factors", b \o d) ELSE <<>>

SellBollinger(s) ==
    IF ~(BollingerTruthy(s) /\ Truthy(current_price(s))) THEN <<>>
    ELSE IF percent_b(s).v > 80 THEN Cond("sell_bb_overbought", <<5000>>)
    ELSE IF percent_b(s).v > 60 THEN Cond("sell_bb_above_midpoint", <<2000>>)
    ELSE <<>>

SellStochastic(s) ==
    IF ~StochasticTruthy(s) THEN <<>>
    ELSE IF Truthy(s.k) /\ s.k.v > 80 THEN Cond("sell_stochastic_overbought", <<5000>>)
    ELSE IF Truthy(s.k) /\ s.k.v > 60 THEN Cond("sell_stochastic_high", <<2000>>)
    ELSE <<>>

\* above_sma_20 is False: the value False itself, not None and not a missing key
IsFalse(c) == c.st = "val" /\ c.v = 0

SellMovingAverages(s) ==
    IF ~MaTruthy(s) THEN <<>>
    ELSE IF IsFalse(s.above_sma_20) /\ IsFalse(s.above_sma_50) THEN Cond("sell_below_sma_20_50", <<5000>>)
    ELSE IF IsFalse(s.above_sma_20) THEN Cond("sell_below_sma_20", <<2000>>)
    ELSE <<>>

SellAdx(s) ==
    IF AdxTruthy(s) /\ Truthy(s.adx_adx) /\ s.adx_adx.v > 25
       /\ Truthy(s.di_plus) /\ Truthy(s.di_minus) /\ s.di_minus.v > s.di_plus.v
    THEN Cond("sell_strong_downtrend", <<5000>>)
    ELSE <<>>

SellConditions(s, rules) ==
    SellSentiment(s, rules) \o SellRsi(s) \o SellMacd(s) \o SellOverextension(s) \o SellRisk(s)
    \o SellBollinger(s) \o SellStochastic(s) \o SellMovingAverages(s) \o SellAdx(s)

SellScore(s, rules) == Accumulate(Zero, Points(SellConditions(s, rules)))

----------------------------------------------------------------------------
(* generate_signal: what the call raises.  "" means no exception. *)

\* lines 48-350: .get on a None sub-record, comparison of None with a number
ScoringError(s) ==
    IF GetOnNone(s.macd) THEN "AttributeError"
    ELSE IF Truthy(s.sent_success) /\ GetOnNone(s.sentiment) THEN "AttributeError"
    ELSE IF StatsOn(s) /\ GetOnNone(s.data) THEN "AttributeError"
    ELSE IF sentiment_score(s).st = "none" THEN "TypeError"
    ELSE IF BollingerTruthy(s) /\ Truthy(current_price(s)) /\ percent_b(s).st = "none"
         THEN "TypeError"
    ELSE ""

NewsOn(s) == s.news_data.st = "val" /\ Truthy(s.news_success)

\* news_data.get('count', 0) if news_data and news_data.get('success') else 0
news_count(s) ==
    IF NewsOn(s) THEN (IF s.count.st = "absent" THEN Val(0) ELSE s.count) ELSE Val(0)

\* line 409: news_count > 0
NewsError(s) == IF news_count(s).st = "none" THEN "TypeError" ELSE ""

\* lines 510-511 (BUY) and 606-608 (HOLD): bollinger.get / ma_data.get; SELL reads neither
SwingError(s, signal) ==
    IF Truthy(current_price(s)) /\ signal \in {"BUY", "HOLD"}
       /\ (GetOnNone(s.bollinger) \/ GetOnNone(s.moving_averages))
    THEN "AttributeError"
    ELSE ""

----------------------------------------------------------------------------
(* generate_signal: final signal (lines 352-400) *)

\* Row with the moderate rows opening at 0.40 instead of 0.45
RowModerateAt040(buy_score, sell_score) ==
    IF ~FLess(buy_score, Double(65000)) /\ FLess(sell_score, Double(30000)) THEN "strong_buy"
    ELSE IF ~FLess(sell_score, Double(60000)) /\ FLess(buy_score, Double(30000))
         THEN "strong_sell"
    ELSE IF FLess(sell_score, buy_score) /\ ~FLess(buy_score, Double(40000))
         THEN "moderate_buy"
    ELSE IF FLess(buy_score, sell_score) /\ ~FLess(sell_score, Double(40000))
         THEN "moderate_sell"
    ELSE "hold"

\* Row with ">=" for ">" between the two scores in the moderate rows: a tie at or above
\* 0.45 goes to BUY
RowTieToBuy(buy_score, sell_score) ==
    IF ~FLess(buy_score, Double(65000)) /\ FLess(sell_score, Double(30000)) THEN "strong_buy"
    ELSE IF ~FLess(sell_score, Double(60000)) /\ FLess(buy_score, Double(30000))
         THEN "strong_sell"
    ELSE IF ~FLess(buy_score, sell_score) /\ ~FLess(buy_score, Double(45000))
         THEN "moderate_buy"
    ELSE IF ~FLess(sell_score, buy_score) /\ ~FLess(sell_score, Double(45000))
         THEN "moderate_sell"
    ELSE "hold"

Row(buy_score, sell_score) ==
    IF ~FLess(buy_score, Double(65000)) /\ FLess(sell_score, Double(30000)) THEN "strong_buy"
    ELSE IF ~FLess(sell_score, Double(60000)) /\ FLess(buy_score, Double(30000))
         THEN "strong_sell"
    ELSE IF FLess(sell_score, buy_score) /\ ~FLess(buy_score, Double(45000))
         THEN "moderate_buy"
    ELSE IF FLess(buy_score, sell_score) /\ ~FLess(sell_score, Double(45000))
         THEN "moderate_sell"
    ELSE "hold"

SignalOf(row) ==
    CASE row \in {"strong_buy", "moderate_buy"} -> "BUY"
      [] row \in {"strong_sell", "moderate_sell"} -> "SELL"
      [] OTHER -> "HOLD"

\* score_diff < 0.1 in the HOLD branch
HighlyUncertain(buy_score, sell_score) ==
    FLess(FAbsDiff(buy_score, sell_score), Double(10000))

\* Confidence with the HOLD branch lacking its "highly uncertain" case
ConfidenceHoldAlwaysMixed(row, buy_score, sell_score) ==
    CASE row = "strong_buy" -> FMin(Double((buy_score.n * 85) \div 100 + 15000), Double(95000))
      [] row = "strong_sell" ->
            FMin(Double((sell_score.n * 85) \div 100 + 15000), Double(95000))
      [] row \in {"moderate_buy", "moderate_sell"} ->
            FMin(FAdd(Double(55000), Half(FAbsDiff(buy_score, sell_score))), Double(75000))
      [] OTHER -> Double(45000 + (FAbsDiff(buy_score, sell_score).n * 20) \div 100)

\* Confidence with the min(..., 0.95) and min(..., 0.75) caps left out
ConfidenceUncapped(row, buy_score, sell_score) ==
    CASE row = "strong_buy" -> Double((buy_score.n * 85) \div 100 + 15000)
      [] row = "strong_sell" -> Double((sell_score.n * 85) \div 100 + 15000)
      [] row \in {"moderate_buy", "moderate_sell"} ->
            FAdd(Double(55000), Half(FAbsDiff(buy_score, sell_score)))
      [] OTHER -> IF HighlyUncertain(buy_score, sell_score)
                  THEN Double(35000)
                  ELSE Double(45000 + (FAbsDiff(buy_score, sell_score).n * 20) \div 100)

\* 0.55 + diff * 0.5 is computed as the program does.  A product with 0.85 or 0.2 is
\* taken at its decimal value (every score is a multiple of 0.005, so it is a whole
\* number of 1e-5) and the double nearest to it; the program's double is within a few
\* 1e-16 of it and is compared with nothing it could tie with.
Confidence(row, buy_score, sell_score) ==
    CASE row = "strong_buy" -> FMin(Double((buy_score.n * 85) \div 100 + 15000), Double(95000))
      [] row = "strong_sell" ->
            FMin(Double((sell_score.n * 85) \div 100 + 15000), Double(95000))
      [] row \in {"moderate_buy", "moderate_sell"} ->
            FMin(FAdd(Double(55000), Half(FAbsDiff(buy_score, sell_score))), Double(75000))
      [] OTHER -> IF HighlyUncertain(buy_score, sell_score)
                  THEN Double(35000)
                  ELSE Double(45000 + (FAbsDiff(buy_score, sell_score).n * 20) \div 100)

_calculate_risk(b, dte, r) ==
    LET risk_score ==
            (IF Truthy(b) /\ b.v > 150 THEN 2 ELSE IF Truthy(b) /\ b.v > 120 THEN 1 ELSE 0)
          + (IF Truthy(dte) /\ dte.v > 200 THEN 2 ELSE IF Truthy(dte) /\ dte.v > 100 THEN 1 ELSE 0)
          + (IF Truthy(r) /\ (r.v > 75 \/ r.v < 25) THEN 1 ELSE 0)
    IN  IF risk_score >= 4 THEN "High" ELSE IF risk_score >= 2 THEN "Medium" ELSE "Low"

\* RiskLevel with the moderate SELL row keeping the computed level (only the strong
\* row assigns "High")
RiskLevelModerateComputed(row, s) ==
    IF row = "strong_sell" THEN "High"
    ELSE _calculate_risk(beta(s), debt_to_equity(s), rsi(s))

RiskLevel(row, s) ==
    IF SignalOf(row) = "SELL" THEN "High"
    ELSE _calculate_risk(beta(s), debt_to_equity(s), rsi(s))

\* lines 109-117
MissingData(s) ==
    IF IsNone(rsi(s)) \/ IsNone(macd_line(s)) \/ IsNone(signal_line(s))
    THEN <<"missing_data">> ELSE <<>>

RowReasons(row, buy_conditions, sell_conditions, buy_score, sell_score) ==
    CASE row = "strong_buy" -> Tags(buy_conditions)
      [] row = "strong_sell" -> Tags(sell_conditions)
      [] row = "moderate_buy" -> Tags(Take(buy_conditions, 3))
      [] row = "moderate_sell" -> Tags(Take(sell_conditions, 3))
      [] OTHER ->
            (IF HighlyUncertain(buy_score, sell_score)
                THEN <<"hold_highly_uncertain">> ELSE <<"hold_mixed_signals">>)
            \o (IF buy_conditions # <<>> THEN <<"bullish:" \o buy_conditions[1].tag>> ELSE <<>>)
            \o (IF sell_conditions # <<>> THEN <<"bearish:" \o sell_conditions[1].tag>> ELSE <<>>)

\* lines 402-410
Context(s) ==
    (IF Truthy(current_price(s)) /\ price_change_pct(s).st # "none"
        THEN <<IF price_change_pct(s).v >= 0 THEN "price_up" ELSE "price_down">> ELSE <<>>)
    \o (IF news_count(s).v > 0 THEN <<"news_context">> ELSE <<>>)

----------------------------------------------------------------------------
(* _calculate_swing_trade_levels (lines 453-663).  Price levels in 1e-5 of *)
(* the price unit: x * 0.98 is x * 98000.  An optional value is <<>> for   *)
(* None and <<x>> for x.                                                   *)

bb_lower(s) == Leaf(s.bollinger, s.lower)

bb_upper(s) == Leaf(s.bollinger, s.upper)

sma_20(s) == Leaf(s.moving_averages, s.sma_20)

sma_50(s) == Leaf(s.moving_averages, s.sma_50)

\* atr_value = atr if atr else current_price * 0.02
atr_value(s) == IF Truthy(s.atr) THEN s.atr.v * 100000 ELSE current_price(s).v * 2000

\* lines 513-528: entry and its note
EntryImmediate(s) ==
    \/ Truthy(rsi(s)) /\ rsi(s).v < 40
    \/ Truthy(bb_lower(s)) /\ 100 * current_price(s).v < 102 * bb_lower(s).v

\* EntryPrice lacking the two "enter at market price" branches: always the pullback
EntryPricePullbackOnly(s) ==
    IF Truthy(sma_20(s)) THEN Min(current_price(s).v * 98000, sma_20(s).v * 100000)
    ELSE current_price(s).v * 98000

EntryPrice(s) ==
    IF EntryImmediate(s) THEN current_price(s).v * 100000
    ELSE IF Truthy(sma_20(s)) THEN Min(current_price(s).v * 98000, sma_20(s).v * 100000)
    ELSE current_price(s).v * 98000

EntryNote(s) ==
    IF Truthy(rsi(s)) /\ rsi(s).v < 40 THEN "enter_oversold"
    ELSE IF EntryImmediate(s) THEN "enter_near_support"
    ELSE "wait_for_pullback"

\* lines 530-548
Targets(s) ==
    (IF Truthy(bb_upper(s)) THEN <<bb_upper(s).v * 100000>> ELSE <<>>)
    \o (IF Truthy(sma_50(s)) /\ sma_50(s).v > current_price(s).v
           THEN <<sma_50(s).v * 100000>> ELSE <<>>)
    \o (IF Truthy(fifty_two_week_high(s))
           THEN <<current_price(s).v * 100000
                  + (fifty_two_week_high(s).v - current_price(s).v) * 50000>>
           ELSE <<>>)

\* gain_pct = 0.08 + confidence * 0.08; confidence is a multiple of 25e-5, so exact
TargetPrice(s, confidence) ==
    IF Targets(s) # <<>> THEN MaxOf(Targets(s))
    ELSE current_price(s).v * (100000 + 8000 + (confidence.n * 8) \div 100)

\* lines 550-568
Stops(s) ==
    <<EntryPrice(s) - atr_value(s) * 2>>
    \o (IF Truthy(bb_lower(s)) THEN <<bb_lower(s).v * 98000>> ELSE <<>>)
    \o (IF Truthy(sma_20(s)) /\ sma_20(s).v < current_price(s).v
           THEN <<sma_20(s).v * 97000>> ELSE <<>>)
    \o (IF Truthy(fifty_two_week_low(s))
           THEN <<Max(fifty_two_week_low(s).v * 102000, current_price(s).v * 90000)>>
           ELSE <<>>)

\* entry * 0.92: every entry is a multiple of 1000, so exact
StopFloor(entry) == (entry * 92) \div 100

\* StopLoss without the max(stop_loss, entry_price * 0.92) floor
StopLossNoFloor(s) == MaxOf(Stops(s))

StopLoss(s) == Max(MaxOf(Stops(s)), StopFloor(EntryPrice(s)))

\* RiskReward lacking the "if risk > 0 else 0" guard: reward / risk whatever risk is
RiskRewardUnguarded(entry, target, stop) == [num |-> target - entry, den |-> entry - stop]

\* reward / risk if risk > 0 else 0, kept as the fraction num/den
RiskReward(entry, target, stop) ==
    IF entry - stop > 0 THEN [num |-> target - entry, den |-> entry - stop]
    ELSE [num |-> 0, den |-> 1]

RatioNote(rr) ==
    IF rr.num >= 2 * rr.den THEN "excellent_rr"
    ELSE IF 2 * rr.num >= 3 * rr.den THEN "good_rr"
    ELSE "low_rr"

\* lines 570-587
BuyLevels(s, confidence, entry, target, stop, rr) ==
    [action |-> "BUY", current_price |-> current_price(s).v,
     entry_price |-> <<entry>>, target_price |-> <<target>>, stop_loss |-> <<stop>>,
     risk_reward_ratio |-> <<rr>>,
     holding_period |-> <<IF FLess(Double(70000), confidence)
                             THEN "5-15 days" ELSE "10-30 days">>,
     notes |-> <<EntryNote(s), RatioNote(rr)>>]

BuyPlan(s, confidence) ==
    BuyLevels(s, confidence, EntryPrice(s), TargetPrice(s, confidence), StopLoss(s),
              RiskReward(EntryPrice(s), TargetPrice(s, confidence), StopLoss(s)))

\* SellPlan with an exit price put in entry_price
SellPlanWithExitPrice(s) ==
    [action |-> "SELL", current_price |-> current_price(s).v,
     entry_price |-> <<current_price(s).v * 100000>>, target_price |-> <<>>,
     stop_loss |-> <<>>, risk_reward_ratio |-> <<>>, holding_period |-> <<>>,
     notes |-> <<"exit_long_positions", "consider_taking_profits">>]

\* lines 589-599
SellPlan(s) ==
    [action |-> "SELL", current_price |-> current_price(s).v,
     entry_price |-> <<>>, target_price |-> <<>>, stop_loss |-> <<>>,
     risk_reward_ratio |-> <<>>, holding_period |-> <<>>,
     notes |-> <<"exit_long_positions", "consider_taking_profits">>
               \o (IF Truthy(rsi(s)) /\ rsi(s).v > 70 THEN <<"rsi_overbought_sell">> ELSE <<>>)]

\* BetterEntries looking at the lower Bollinger band only
BetterEntriesBandOnly(s) ==
    IF Truthy(bb_lower(s)) /\ bb_lower(s).v < current_price(s).v
    THEN <<"pullback_to_lower_band">> ELSE <<>>

\* lines 603-617
BetterEntries(s) ==
    (IF Truthy(bb_lower(s)) /\ bb_lower(s).v < current_price(s).v
        THEN <<"pullback_to_lower_band">> ELSE <<>>)
    \o (IF Truthy(sma_20(s)) /\ sma_20(s).v < current_price(s).v
           THEN <<"pullback_to_sma_20">> ELSE <<>>)
    \o (IF Truthy(sma_50(s)) /\ sma_50(s).v < current_price(s).v
           THEN <<"pullback_to_sma_50">> ELSE <<>>)

\* lines 619-656
HoldNotes(s) ==
    LET r == rsi(s) p == current_price(s).v
        hi == fifty_two_week_high(s) lo == fifty_two_week_low(s)
    IN  (IF Truthy(r) /\ 45 <= r.v /\ r.v <= 55 THEN <<"rsi_neutral">>
         ELSE IF Truthy(r) /\ 40 < r.v /\ r.v < 45 THEN <<"rsi_approaching_oversold">>
         ELSE IF Truthy(r) /\ 55 < r.v /\ r.v < 60 THEN <<"rsi_approaching_overbought">>
         ELSE <<>>)
        \o (IF ~IsNone(macd_line(s)) /\ ~IsNone(signal_line(s))
               /\ FLess(MacdGap(s), Double(30000))
               THEN <<"macd_near_crossover">> ELSE <<>>)
        \o (IF BetterEntries(s) # <<>>
               THEN <<"better_entry_points">> \o Take(BetterEntries(s), 3)
               ELSE <<"no_clear_support">>)
        \o (IF Truthy(bb_upper(s)) /\ bb_upper(s).v > p
               THEN <<"breakout_watch", "buy_on_break_above_upper_band">> ELSE <<>>)
        \o (IF Truthy(hi) /\ Truthy(lo)
               THEN (IF PositionBelow(p, hi.v, lo.v, 3) THEN <<"near_52w_low">>
                     ELSE IF PositionAbove(p, hi.v, lo.v, 7) THEN <<"near_52w_high">>
                     ELSE <<"mid_range">>)
               ELSE <<>>)

HoldPlan(s) ==
    [action |-> "HOLD", current_price |-> current_price(s).v,
     entry_price |-> <<>>, target_price |-> <<>>, stop_loss |-> <<>>,
     risk_reward_ratio |-> <<>>, holding_period |-> <<>>,
     notes |-> HoldNotes(s)]

_calculate_swing_trade_levels(signal, s, confidence) ==
    IF ~Truthy(current_price(s)) THEN <<>>
    ELSE IF signal = "BUY" THEN <<BuyPlan(s, confidence)>>
    ELSE IF signal = "SELL" THEN <<SellPlan(s)>>
    ELSE <<HoldPlan(s)>>

----------------------------------------------------------------------------
(* SignalEngine.generate_signal (lines 23-427).  The 'metrics' entry of the *)
(* result only repeats the extracted inputs and is left out.               *)

Raise(error) == [outcome |-> "raise", error |-> error]

\* lines 402-427: context reasons, the swing plan, the result
Assemble(s, buy_conditions, sell_conditions, buy_score, sell_score, row, signal, confidence) ==
    IF NewsError(s) # "" THEN Raise(NewsError(s))
    ELSE IF SwingError(s, signal) # "" THEN Raise(SwingError(s, signal))
    ELSE [outcome |-> "return",
          signal |-> signal,
          confidence |-> confidence,
          reasons |-> MissingData(s)
                      \o RowReasons(row, buy_conditions, sell_conditions, buy_score, sell_score)
                      \o Context(s),
          risk_level |-> RiskLevel(row, s),
          news_count |-> news_count(s).v,
          buy_score |-> buy_score,
          sell_score |-> sell_score,
          swing_trade |-> _calculate_swing_trade_levels(signal, s, confidence)]

\* lines 352-400: the row decides signal and confidence
Decide(s, buy_conditions, sell_conditions, buy_score, sell_score, row) ==
    Assemble(s, buy_conditions, sell_conditions, buy_score, sell_score, row,
             SignalOf(row), Confidence(row, buy_score, sell_score))

\* lines 119-350: the two scores
Tally(s, buy_conditions, sell_conditions, buy_score, sell_score) ==
    Decide(s, buy_conditions, sell_conditions, buy_score, sell_score,
           Row(buy_score, sell_score))

SignalEngine_generate_signal(s, rules) ==
    IF ScoringError(s) # "" THEN Raise(ScoringError(s))
    ELSE Tally(s, BuyConditions(s, rules), SellConditions(s, rules),
               BuyScore(s, rules), SellScore(s, rules))

----------------------------------------------------------------------------
(* SignalEngine.__init__, update_rules and the module-level generate_signal *)

\* self.rules = rules if rules else SIGNAL_RULES: which dict object the engine holds,
\* the module's SIGNAL_RULES itself (no copy) or the caller's own dict
SignalEngine_init(rules) == IF DOMAIN rules # {} THEN "own" ELSE "SIGNAL_RULES"

\* dict.update: the keys of new_rules replace the entries of the same name
DictUpdate(rules, new_rules) ==
    [key \in DOMAIN rules \cup DOMAIN new_rules |->
        IF key \in DOMAIN new_rules THEN new_rules[key] ELSE rules[key]]

\* Wrap with `except KeyError` for `except Exception`: any other exception of the engine
\* leaves the function
WrapKeyErrorOnly(symbol, r) ==
    IF r.outcome = "raise"
    THEN IF r.error = "KeyError"
         THEN [outcome |-> "return", success |-> FALSE, signal |-> "ERROR", error |-> r.error,
               symbol |-> symbol, confidence |-> Double(50000), reasons |-> <<"error">>,
               risk_level |-> "High"]
         ELSE r
    ELSE [outcome |-> "return", success |-> TRUE, symbol |-> symbol,
          signal |-> r.signal, confidence |-> r.confidence, reasons |-> r.reasons,
          risk_level |-> r.risk_level, news_count |-> r.news_count,
          buy_score |-> r.buy_score, sell_score |-> r.sell_score,
          swing_trade |-> r.swing_trade]

\* lines 691-711: the try / except around the engine's call, r what the call did
Wrap(symbol, r) ==
    IF r.outcome = "raise"
    THEN [outcome |-> "return", success |-> FALSE, signal |-> "ERROR", error |-> r.error,
          symbol |-> symbol, confidence |-> Double(50000), reasons |-> <<"error">>,
          risk_level |-> "High"]
    ELSE [outcome |-> "return", success |-> TRUE, symbol |-> symbol,
          signal |-> r.signal, confidence |-> r.confidence, reasons |-> r.reasons,
          risk_level |-> r.risk_level, news_count |-> r.news_count,
          buy_score |-> r.buy_score, sell_score |-> r.sell_score,
          swing_trade |-> r.swing_trade]

\* lines 675-711: a fresh SignalEngine() (so the current SIGNAL_RULES), try / except
generate_signal(symbol, s, signal_rules) ==
    Wrap(symbol, SignalEngine_generate_signal(s, signal_rules))

----------------------------------------------------------------------------
(* Inputs: the snapshot handed to the engine *)

Dict == Val(1)

EmptySnapshot ==
    [rsi |-> Absent, atr |-> Absent,
     macd |-> Absent, macd_macd |-> Absent, macd_signal |-> Absent, macd_histogram |-> Absent,
     bollinger |-> Absent, percent_b |-> Absent, lower |-> Absent, upper |-> Absent,
     stochastic |-> Absent, k |-> Absent,
     adx |-> Absent, adx_adx |-> Absent, di_plus |-> Absent, di_minus |-> Absent,
     moving_averages |-> Absent, above_sma_20 |-> Absent, above_sma_50 |-> Absent,
     sma_20 |-> Absent, sma_50 |-> Absent,
     sent_success |-> Absent, sentiment |-> Absent, overall_score |-> Absent,
     price_data |-> None, price |-> Absent, change_percent |-> Absent, volume |-> Absent,
     stats_data |-> None, stats_success |-> Absent, data |-> Absent,
     beta |-> Absent, trailingPE |-> Absent, debtToEquity |-> Absent,
     fiftyTwoWeekHigh |-> Absent, fiftyTwoWeekLow |-> Absent, averageVolume |-> Absent,
     news_data |-> None, news_success |-> Absent, count |-> Absent]

Fields == DOMAIN EmptySnapshot

With(base, o) == [f \in DOMAIN base |-> IF f \in DOMAIN o THEN o[f] ELSE base[f]]

Vals(S) == {Val(x) : x \in S}

SubRecordFields == {"macd", "bollinger", "stochastic", "adx", "moving_averages", "sentiment", "data"}

ArgumentFields == {"price_data", "stats_data", "news_data"}

FlagFields == {"sent_success", "stats_success", "news_success", "above_sma_20", "above_sma_50"}

NumberValues(f) ==
    CASE f = "rsi" -> {0, 20, 30, 35, 40, 45, 50, 55, 60, 70, 78}
      [] f = "atr" -> {0, 1, 5}
      [] f = "macd_macd" -> {20, 50, 60, 100, 120}
      [] f = "macd_signal" -> {50, 90}
      [] f = "macd_histogram" -> {0, 30}
      [] f = "percent_b" -> {10, 30, 70, 90}
      [] f = "lower" -> {0, 99, 110}
      [] f = "upper" -> {90, 120}
      [] f = "k" -> {0, 10, 30, 70, 90}
      [] f = "adx_adx" -> {20, 30}
      [] f = "di_plus" -> {10, 30}
      [] f = "di_minus" -> {10, 30}
      [] f = "sma_20" -> {90, 110}
      [] f = "sma_50" -> {90, 120}
      [] f = "overall_score" -> {-40, -30, -15, -10, 10, 15, 30, 40}
      [] f = "price" -> {0, 100, 140}
      [] f = "change_percent" -> {-150}
      [] f = "volume" -> {0, 2000}
      [] f = "beta" -> {0, 130, 180}
      [] f = "trailingPE" -> {12, 20, 30}
      [] f = "debtToEquity" -> {0, 150, 250}
      [] f = "fiftyTwoWeekHigh" -> {0, 100, 150}
      [] f = "fiftyTwoWeekLow" -> {0, 80, 100}
      [] f = "averageVolume" -> {0, 1000}
      [] f = "count" -> {5}

\* keys read with a default, d.get(key, default): a missing key differs from None
DefaultedFields == {"percent_b", "overall_score", "change_percent", "count"}

FieldValues(f) ==
    IF f \in SubRecordFields THEN {Absent, None, Dict}
    ELSE IF f \in ArgumentFields THEN {None, Dict}
    ELSE IF f \in FlagFields THEN {None, Val(1), Val(0)}
    ELSE IF f \in DefaultedFields THEN {Absent, None} \cup Vals(NumberValues(f))
    ELSE {None} \cup Vals(NumberValues(f))

----------------------------------------------------------------------------
(* Starting snapshots: the scenarios of the specification, the shape the   *)
(* indicator provider returns, and snapshots next to each decision row.    *)

SentimentOf(x) == [sent_success |-> Val(1), sentiment |-> Dict, overall_score |-> Val(x)]

MacdOf(line, sig) == [macd |-> Dict, macd_macd |-> Val(line), macd_signal |-> Val(sig)]

PriceOf(p) == [price_data |-> Dict, price |-> Val(p)]

StatsOf == [stats_data |-> Dict, stats_success |-> Val(1), data |-> Dict]

Merge(a, b) == [f \in DOMAIN a \cup DOMAIN b |-> IF f \in DOMAIN b THEN b[f] ELSE a[f]]

RECURSIVE MergeAll(_)
MergeAll(q) == IF Len(q) = 1 THEN q[1] ELSE Merge(q[1], MergeAll(Tail(q)))

\* get_enhanced_technical_indicators: 'macd': {}, the other sub-records None
ProviderShape ==
    With(EmptySnapshot, MergeAll(<<
        [rsi |-> None, atr |-> None, macd |-> Dict, bollinger |-> None, stochastic |-> None,
         adx |-> None, moving_averages |-> None],
        SentimentOf(0), PriceOf(100), StatsOf>>))

ScenarioA ==
    With(EmptySnapshot, MergeAll(<<
        [rsi |-> Val(25), macd_histogram |-> Val(30), change_percent |-> Val(150),
         fiftyTwoWeekHigh |-> Val(150), fiftyTwoWeekLow |-> Val(80), trailingPE |-> Val(12)],
        MacdOf(120, 50), SentimentOf(40), PriceOf(100), StatsOf>>))

ScenarioB ==
    With(EmptySnapshot, MergeAll(<<
        [rsi |-> Val(78), beta |-> Val(180), debtToEquity |-> Val(250)],
        MacdOf(20, 90), SentimentOf(-40), StatsOf>>))

ScenarioC ==
    With(EmptySnapshot, MergeAll(<<
        [rsi |-> Val(55), atr |-> Val(2), macd_histogram |-> Val(5),
         bollinger |-> Dict, percent_b |-> Val(50), lower |-> Val(95), upper |-> Val(110),
         stochastic |-> Dict, k |-> Val(50),
         adx |-> Dict, adx_adx |-> Val(20), di_plus |-> Val(20), di_minus |-> Val(20),
         moving_averages |-> Dict, above_sma_20 |-> Val(1), above_sma_50 |-> Val(0),
         sma_20 |-> Val(98), sma_50 |-> Val(103),
         change_percent |-> Val(0), volume |-> Val(1000),
         beta |-> Val(100), trailingPE |-> Val(30), debtToEquity |-> Val(50),
         fiftyTwoWeekHigh |-> Val(120), fiftyTwoWeekLow |-> Val(70), averageVolume |-> Val(1000),
         news_data |-> Dict, news_success |-> Val(1), count |-> Val(5)],
        MacdOf(55, 50), SentimentOf(0), PriceOf(100), StatsOf>>))

ScenarioD ==
    With(EmptySnapshot, MergeAll(<<
        [rsi |-> Val(45), fiftyTwoWeekHigh |-> Val(100), fiftyTwoWeekLow |-> Val(100)],
        MacdOf(60, 50), SentimentOf(15), PriceOf(100), StatsOf>>))

\* buy 0.525, sell 0.2
ModerateBuy ==
    With(EmptySnapshot, MergeAll(<<
        [rsi |-> Val(35), beta |-> Val(180), debtToEquity |-> Val(250),
         stochastic |-> Dict, k |-> Val(90)],
        MacdOf(60, 50), SentimentOf(40), PriceOf(100), StatsOf>>))

\* sell 0.5, buy 0.2
ModerateSell ==
    With(EmptySnapshot, MergeAll(<<
        [rsi |-> Val(65), trailingPE |-> Val(12), volume |-> Val(2000), averageVolume |-> Val(1000),
         moving_averages |-> Dict, above_sma_20 |-> Val(1), above_sma_50 |-> Val(1)],
        MacdOf(50, 60), SentimentOf(-40), PriceOf(100), StatsOf>>))

\* buy 0.75 against sell 0.4: both sides strong
Conflict ==
    With(EmptySnapshot, MergeAll(<<
        [rsi |-> Val(78), macd_histogram |-> Val(30), trailingPE |-> Val(12),
         fiftyTwoWeekHigh |-> Val(150), fiftyTwoWeekLow |-> Val(80),
         beta |-> Val(180), debtToEquity |-> Val(250)],
        MacdOf(120, 50), SentimentOf(40), PriceOf(100), StatsOf>>))

\* a strong BUY with every level of the plan supplied
FullBuy ==
    With(EmptySnapshot, MergeAll(<<
        [rsi |-> Val(45), atr |-> Val(1), macd_histogram |-> Val(30),
         bollinger |-> Dict, percent_b |-> Val(30), lower |-> Val(95), upper |-> Val(110),
         moving_averages |-> Dict, above_sma_20 |-> Val(1), above_sma_50 |-> Val(0),
         sma_20 |-> Val(99), sma_50 |-> Val(105),
         trailingPE |-> Val(12), fiftyTwoWeekHigh |-> Val(150), fiftyTwoWeekLow |-> Val(80)],
        MacdOf(120, 50), SentimentOf(40), PriceOf(100), StatsOf>>))

\* a strong BUY whose only target candidate, the upper Bollinger band, is below the price
InvertedBuy ==
    With(EmptySnapshot, MergeAll(<<
        [rsi |-> Val(25), macd_histogram |-> Val(30), trailingPE |-> Val(12),
         bollinger |-> Dict, upper |-> Val(90)],
        MacdOf(120, 50), SentimentOf(40), PriceOf(100), StatsOf>>))

\* scenario C (RSI 55, MACD line next to its signal, sentiment 0.0, every field present)
\* with the remaining fields bullish (buy 0.70, sell 0) and a beta between 1.2 and 1.5
ScenarioCBullish ==
    With(ScenarioC,
        [percent_b |-> Val(10), k |-> Val(10), above_sma_50 |-> Val(1), beta |-> Val(130),
         adx_adx |-> Val(30), di_plus |-> Val(30), di_minus |-> Val(10),
         volume |-> Val(2000), trailingPE |-> Val(12),
         fiftyTwoWeekHigh |-> Val(150), fiftyTwoWeekLow |-> Val(80)])

\* buy 0.65 (sentiment, RSI, P/E, volume, %B) against sell 0.65 (MACD, 52-week high,
\* beta and debt, %K, both SMAs): the two sums are the same double
Tie ==
    With(EmptySnapshot, MergeAll(<<
        [rsi |-> Val(25), trailingPE |-> Val(12), volume |-> Val(2000), averageVolume |-> Val(1000),
         bollinger |-> Dict, percent_b |-> Val(10),
         fiftyTwoWeekHigh |-> Val(100), fiftyTwoWeekLow |-> Val(80),
         beta |-> Val(180), debtToEquity |-> Val(250),
         stochastic |-> Dict, k |-> Val(90),
         moving_averages |-> Dict, above_sma_20 |-> Val(0), above_sma_50 |-> Val(0)],
        MacdOf(20, 90), SentimentOf(40), PriceOf(100), StatsOf>>))

Bases ==
    {EmptySnapshot, ProviderShape, ScenarioA, ScenarioB, ScenarioC, ScenarioD,
     ModerateBuy, ModerateSell, Conflict, FullBuy, InvertedBuy, ScenarioCBullish, Tie}

----------------------------------------------------------------------------
(* State machine.                                                          *)
(*   snap         the snapshot the caller has assembled                    *)
(*   edited       the fields the caller has changed since the start        *)
(*   SIGNAL_RULES the module-level dict of src/config.py                   *)
(*   own_rules    the dict passed to the constructor of engine "e2"        *)
(*   rules_of     for each engine, the dict object self.rules refers to    *)
(*   updates      number of update_rules calls so far                      *)
(* The caller makes at most MaxChanges changes (a field of the snapshot,   *)
(* an update_rules call) to a starting configuration.                      *)
(*   result       who made the latest call, whether it repeated its call,  *)
(*                and what the call returned or raised                     *)

MaxChanges == 1

Engines == {"e1", "e2"}

Symbols == {"AAPL", "MSFT"}

NoRules == <<>>

CustomRules == [BUY |-> [sentiment_threshold |-> 15], SELL |-> [sentiment_threshold |-> -15]]

NewRules ==
    {[BUY |-> [sentiment_threshold |-> 10]],
     [BUY |-> [sentiment_threshold |-> 40], SELL |-> [sentiment_threshold |-> -40]]}

NoResult == [by |-> "nobody", again |-> FALSE, ret |-> [outcome |-> "none"]]

RulesOf(e) == IF rules_of[e] = "SIGNAL_RULES" THEN SIGNAL_RULES ELSE own_rules

Init ==
    /\ snap \in Bases
    /\ edited = {}
    /\ SIGNAL_RULES = DefaultRules
    /\ own_rules = CustomRules
    /\ rules_of = [e \in Engines |->
                      IF e = "e1" THEN SignalEngine_init(NoRules)
                      ELSE SignalEngine_init(CustomRules)]
    /\ updates = 0
    /\ result = NoResult

\* the caller fills in or changes one field of the snapshot before calling
SetField(f, c) ==
    /\ result = NoResult
    /\ f \notin edited
    /\ Cardinality(edited) + updates < MaxChanges
    /\ c # snap[f]
    /\ snap' = [snap EXCEPT ![f] = c]
    /\ edited' = edited \cup {f}
    /\ UNCHANGED <<SIGNAL_RULES, own_rules, rules_of, updates, result>>

\* EngineGenerate with technical_data.setdefault('macd', {}) for technical_data.get('macd', {}):
\* the call writes the default into the caller's record
EngineGenerateSetDefault(e) ==
    /\ result.by \in {"nobody", e}
    /\ ~result.again
    /\ result' = [by |-> e, again |-> result.by = e,
                  ret |-> SignalEngine_generate_signal(snap, RulesOf(e))]
    /\ snap' = [snap EXCEPT !.macd = IF @.st = "absent" THEN Dict ELSE @]
    /\ UNCHANGED <<edited, SIGNAL_RULES, own_rules, rules_of, updates>>

\* engine.generate_signal(technical_data, sentiment_data, news_data, price_data, stats_data),
\* a first call or the same call once more; the method assigns to nothing but locals
EngineGenerate(e) ==
    /\ result.by \in {"nobody", e}
    /\ ~result.again
    /\ result' = [by |-> e, again |-> result.by = e,
                  ret |-> SignalEngine_generate_signal(snap, RulesOf(e))]
    /\ UNCHANGED <<snap, edited, SIGNAL_RULES, own_rules, rules_of, updates>>

\* generate_signal(symbol, ...)
ModuleGenerate(symbol) ==
    /\ result = NoResult
    /\ result' = [by |-> "module", again |-> FALSE,
                  ret |-> generate_signal(symbol, snap, SIGNAL_RULES)]
    /\ UNCHANGED <<snap, edited, SIGNAL_RULES, own_rules, rules_of, updates>>

\* engine.update_rules(new_rules): self.rules.update(new_rules)
UpdateRules(e, new_rules) ==
    /\ result = NoResult
    /\ Cardinality(edited) + updates < MaxChanges
    /\ updates' = updates + 1
    /\ IF rules_of[e] = "SIGNAL_RULES"
       THEN SIGNAL_RULES' = DictUpdate(SIGNAL_RULES, new_rules) /\ UNCHANGED own_rules
       ELSE own_rules' = DictUpdate(own_rules, new_rules) /\ UNCHANGED SIGNAL_RULES
    /\ UNCHANGED <<snap, edited, rules_of, result>>

\* the caller has consumed the result; the next call may come from anyone
Return ==
    /\ result # NoResult
    /\ result' = NoResult
    /\ UNCHANGED <<snap, edited, SIGNAL_RULES, own_rules, rules_of, updates>>

Next ==
    \/ \E f \in Fields : \E c \in FieldValues(f) : SetField(f, c)
    \/ \E e \in Engines : EngineGenerate(e)
    \/ \E symbol \in Symbols : ModuleGenerate(symbol)
    \/ \E e \in Engines : \E new_rules \in NewRules : UpdateRules(e, new_rules)
    \/ Return

Spec == Init /\ [][Next]_vars

----------------------------------------------------------------------------
(* Properties *)

\* the latest call returned a result with scores (not an exception, not the wrapper's
\* ERROR record)
Scored ==
    result.by # "nobody" /\ result.ret.outcome = "return" /\ result.ret.signal # "ERROR"

AtLeast(x, n) == ~FLess(x, Double(n))

Below(x, n) == FLess(x, Double(n))

StrongRow(buy_score, sell_score) ==
    \/ AtLeast(buy_score, 65000) /\ Below(sell_score, 30000)
    \/ AtLeast(sell_score, 60000) /\ Below(buy_score, 30000)

\* C1: for every pair (buy_score, sell_score) of a result the signal is that of the first
\* matching row: BUY if buy_score >= 0.65 and sell_score < 0.3; else SELL if
\* sell_score >= 0.60 and buy_score < 0.3; else BUY if buy_score > sell_score and
\* buy_score >= 0.45; else SELL if sell_score > buy_score and sell_score >= 0.45; else HOLD.
C1_DecisionTable ==
    Scored =>
        LET b == result.ret.buy_score
            s == result.ret.sell_score
        IN  result.ret.signal =
                IF AtLeast(b, 65000) /\ Below(s, 30000) THEN "BUY"
                ELSE IF AtLeast(s, 60000) /\ Below(b, 30000) THEN "SELL"
                ELSE IF FLess(s, b) /\ AtLeast(b, 45000) THEN "BUY"
                ELSE IF FLess(b, s) /\ AtLeast(s, 45000) THEN "SELL"
                ELSE "HOLD"

\* C1 witness: a BUY decided by the third row, with buy_score >= 0.65 turned away from
\* the first row by sell_score >= 0.3
C1_Witness ==
    /\ Scored
    /\ result.ret.signal = "BUY"
    /\ AtLeast(result.ret.buy_score, 65000)
    /\ AtLeast(result.ret.sell_score, 30000)

\* C2: for every snapshot whose sub-records and leaves are each absent, None or a value,
\* SignalEngine.generate_signal raises nothing and returns signal BUY, HOLD or SELL.
C2_NeverRaises ==
    result.by \in Engines =>
        /\ result.ret.outcome = "return"
        /\ result.ret.signal \in {"BUY", "HOLD", "SELL"}

\* every leaf is missing; a sub-record is missing or an empty dict, an argument is None
\* or an empty dict
AllAbsent(s) ==
    \A f \in Fields :
        \/ s[f].st = "absent"
        \/ f \in SubRecordFields /\ s[f] = Dict
        \/ f \in ArgumentFields

\* C3: for a snapshot with every optional field absent the call returns signal HOLD,
\* confidence 0.35, risk_level Low and no swing plan.
C3_AllAbsentHold ==
    (result.by # "nobody" /\ AllAbsent(snap)) =>
        /\ result.ret.outcome = "return"
        /\ result.ret.signal = "HOLD"
        /\ result.ret.confidence = Double(35000)
        /\ result.ret.risk_level = "Low"
        /\ result.ret.swing_trade = <<>>

\* C3 witness: an engine has returned for the snapshot with nothing in it
C3_Witness ==
    /\ result.by \in Engines
    /\ snap = EmptySnapshot
    /\ result.ret.outcome = "return"

\* the step supplies field f, missing or None before, and changes nothing else of the
\* snapshot
Supplies(f) ==
    /\ snap[f].st # "val"
    /\ snap'[f].st = "val"
    /\ \A g \in Fields \ {f} : snap'[g] = snap[g]

\* C4: buy_score and sell_score of every result are >= 0, and supplying a previously
\* absent field of an otherwise unchanged snapshot lowers neither buy_score nor
\* sell_score, under the rules of either engine.
C4_ScoresMonotone ==
    [][/\ Scored' => /\ ~FLess(result'.ret.buy_score, Zero)
                     /\ ~FLess(result'.ret.sell_score, Zero)
       /\ \A f \in Fields :
            (Supplies(f) /\ ScoringError(snap) = "" /\ ScoringError(snap') = "") =>
                \A rules \in {SIGNAL_RULES, own_rules} :
                    /\ ~FLess(BuyScore(snap', rules), BuyScore(snap, rules))
                    /\ ~FLess(SellScore(snap', rules), SellScore(snap, rules))]_vars

\* C4 witness: a result for a starting snapshot plus one supplied field, whose buy_score
\* is above the one the starting snapshot gets
C4_Witness ==
    /\ Scored
    /\ result.by = "e1"
    /\ \E f \in edited :
        /\ edited = {f}
        /\ snap[f].st = "val"
        /\ [snap EXCEPT ![f] = Absent] \in Bases
        /\ FLess(BuyScore([snap EXCEPT ![f] = Absent], SIGNAL_RULES), result.ret.buy_score)

C6_NoSharedRules ==
    [][\A e \in Engines : \A new_rules \in NewRules :
            (UpdateRules(e, new_rules) /\ rules_of[e] = "SIGNAL_RULES") =>
                /\ \A other \in Engines \ {e} :
                        rules_of[other] # "SIGNAL_RULES" => own_rules' = own_rules
                /\ \A symbol \in Symbols :
                        generate_signal(symbol, snap', SIGNAL_RULES')
                            = generate_signal(symbol, snap, SIGNAL_RULES)]_vars

\* C7: every SELL result, of the strong or of the moderate row, has risk_level High.
C7_SellIsHighRisk ==
    (Scored /\ result.ret.signal = "SELL") => result.ret.risk_level = "High"

\* C7 witness: a SELL of the moderate row for a snapshot whose beta, debt/equity and RSI
\* alone would not classify as High
C7_Witness ==
    /\ Scored
    /\ result.ret.signal = "SELL"
    /\ ~StrongRow(result.ret.buy_score, result.ret.sell_score)
    /\ _calculate_risk(beta(snap), debt_to_equity(snap), rsi(snap)) # "High"

\* C8: the confidence of every result lies in [0, 1]; it is at most 0.95 in a strong
\* BUY/SELL row, at most 0.75 in a moderate BUY/SELL row, and within [0.35, 0.65] for HOLD.
C8_ConfidenceCaps ==
    (result.by # "nobody" /\ result.ret.outcome = "return") =>
        LET c == result.ret.confidence IN
        /\ ~FLess(c, Zero)
        /\ ~FLess(Double(100000), c)
        /\ Scored =>
            LET strong == StrongRow(result.ret.buy_score, result.ret.sell_score) IN
            /\ (result.ret.signal \in {"BUY", "SELL"} /\ strong) => ~FLess(Double(95000), c)
            /\ (result.ret.signal \in {"BUY", "SELL"} /\ ~strong) => ~FLess(Double(75000), c)
            /\ result.ret.signal = "HOLD" => ~FLess(c, Double(35000)) /\ ~FLess(Double(65000), c)

\* C8 witness: a strong BUY whose score * 0.85 + 0.15 is above 0.95 and whose confidence
\* is 0.95
C8_Witness ==
    /\ Scored
    /\ result.ret.signal = "BUY"
    /\ (result.ret.buy_score.n * 85) \div 100 + 15000 > 95000
    /\ result.ret.confidence = Double(95000)

\* C9: the swing plan of a returned result is null if the current price is absent, and
\* is a plan whose action is the result's signal whenever a current price is present.
C9_PlanIffPrice ==
    (result.by \in Engines /\ result.ret.outcome = "return") =>
        IF current_price(snap).st = "val"
        THEN /\ result.ret.swing_trade # <<>>
             /\ result.ret.swing_trade[1].action = result.ret.signal
        ELSE result.ret.swing_trade = <<>>

\* C10: in every BUY plan stop_loss >= 0.92 * entry_price.
C10_StopFloor ==
    (Scored /\ result.ret.swing_trade # <<>> /\ result.ret.swing_trade[1].action = "BUY") =>
        100 * result.ret.swing_trade[1].stop_loss[1]
            >= 92 * result.ret.swing_trade[1].entry_price[1]

\* C10 witness: a BUY plan whose stop candidates (ATR, Bollinger, SMA-20, 52-week low)
\* all lie below 0.92 * entry and whose stop_loss is 0.92 * entry
C10_Witness ==
    /\ Scored
    /\ result.ret.swing_trade # <<>>
    /\ result.ret.swing_trade[1].action = "BUY"
    /\ MaxOf(Stops(snap)) < StopFloor(EntryPrice(snap))
    /\ 100 * result.ret.swing_trade[1].stop_loss[1]
            = 92 * result.ret.swing_trade[1].entry_price[1]

\* the plan of the latest result, when it is a BUY plan
BuyPlanOf(r) == r.swing_trade[1]

HasBuyPlan ==
    Scored /\ result.ret.swing_trade # <<>> /\ result.ret.swing_trade[1].action = "BUY"

\* C11: in every BUY plan the ratio's denominator (the risk) is positive, and when
\* stop_loss >= entry_price the risk_reward_ratio is 0.
C11_ZeroRatioWhenNoRisk ==
    HasBuyPlan =>
        LET plan == BuyPlanOf(result.ret) IN
        /\ plan.risk_reward_ratio[1].den > 0
        /\ plan.stop_loss[1] >= plan.entry_price[1] =>
                plan.risk_reward_ratio[1] = [num |-> 0, den |-> 1]

\* C11 witness: a BUY plan whose stop (0.98 of a lower Bollinger band above the price)
\* lies above its entry
C11_Witness ==
    /\ HasBuyPlan
    /\ BuyPlanOf(result.ret).stop_loss[1] > BuyPlanOf(result.ret).entry_price[1]
    /\ BuyPlanOf(result.ret).stop_loss[1] = bb_lower(snap).v * 98000

\* C12: in a BUY plan whose entry price is at or above its target price the
\* risk_reward_ratio is 0 or unavailable (null); no negative ratio is reported.
C12_NoNegativeRatio ==
    HasBuyPlan =>
        LET plan == BuyPlanOf(result.ret) IN
        plan.entry_price[1] >= plan.target_price[1] =>
            \/ plan.risk_reward_ratio = <<>>
            \/ plan.risk_reward_ratio[1].num = 0

\* C13: for scenario A (rsi 25, MACD 1.2 / 0.5 / 0.3, sentiment 0.4, price 100, change
\* 1.5%, 52-week range 80..150, P/E 12) the result is BUY with confidence > 0.8,
\* risk_level Low or Medium and a plan with entry_price 100.
C13_ScenarioA ==
    (result.by # "nobody" /\ snap = ScenarioA) =>
        /\ result.ret.outcome = "return"
        /\ result.ret.signal = "BUY"
        /\ FLess(Double(80000), result.ret.confidence)
        /\ result.ret.risk_level \in {"Low", "Medium"}
        /\ result.ret.swing_trade # <<>>
        /\ result.ret.swing_trade[1].entry_price = <<100 * 100000>>

\* C13 witness: the module-level function has answered for scenario A, with the
\* confidence capped at 0.95
C13_Witness ==
    /\ result.by = "module"
    /\ snap = ScenarioA
    /\ result.ret.success
    /\ result.ret.confidence = Double(95000)

\* C14: for scenario B (rsi 78, MACD 0.2 / 0.9, sentiment -0.4, beta 1.8, debt/equity
\* 2.5, no price) the result is SELL with risk_level High, and no entry price can be
\* read from the swing plan: the plan is null or its entry_price is null.
C14_ScenarioB ==
    (result.by # "nobody" /\ snap = ScenarioB) =>
        /\ result.ret.outcome = "return"
        /\ result.ret.signal = "SELL"
        /\ result.ret.risk_level = "High"
        /\ \/ result.ret.swing_trade = <<>>
           \/ result.ret.swing_trade[1].entry_price = <<>>

\* C14 witness: an engine has answered SELL for scenario B from a sell_score of 0.85
C14_Witness ==
    /\ result.by \in Engines
    /\ snap = ScenarioB
    /\ result.ret.outcome = "return"
    /\ result.ret.signal = "SELL"
    /\ result.ret.sell_score.n = 85000

InSeq(x, q) == \E i \in 1..Len(q) : q[i] = x

\* every field is present with a value, RSI is 55, |MACD line - signal| < 0.1 and the
\* sentiment score is 0.0
ScenarioCLike(s) ==
    /\ \A f \in Fields : s[f].st = "val"
    /\ s.rsi.v = 55
    /\ FLess(MacdGap(s), Double(10000))
    /\ sentiment_score(s) = Val(0)

\* some support level (lower Bollinger band, SMA-20, SMA-50) other than 0 is below the
\* current price
SupportBelow(s) ==
    \E c \in {bb_lower(s), sma_20(s), sma_50(s)} : Truthy(c) /\ c.v < current_price(s).v

HasBetterEntryPoints(r) ==
    r.swing_trade # <<>> /\ InSeq("better_entry_points", r.swing_trade[1].notes)

UsedRules == IF result.by \in Engines THEN RulesOf(result.by) ELSE SIGNAL_RULES

\* the 52-week high equals the 52-week low and a current price is present
DegenerateRange(s) ==
    /\ fifty_two_week_high(s).st = "val"
    /\ fifty_two_week_low(s).st = "val"
    /\ fifty_two_week_high(s).v = fifty_two_week_low(s).v
    /\ current_price(s).st = "val"

WithoutRange(s) == [s EXCEPT !.fiftyTwoWeekHigh = Absent, !.fiftyTwoWeekLow = Absent]

RangeTags ==
    {"buy_near_52w_low", "buy_below_52w_midpoint", "sell_near_52w_high",
     "sell_above_52w_midpoint"}

\* C16: when the 52-week high equals the 52-week low and a current price is present,
\* the range category adds nothing: both scores and the reasons are those of the same
\* snapshot without the two range fields, no range reason is among the conditions, and
\* the call raises only if it raises without the two fields as well.
C16_DegenerateRange ==
    (result.by # "nobody" /\ DegenerateRange(snap)) =>
        LET other == SignalEngine_generate_signal(WithoutRange(snap), UsedRules) IN
        IF Scored
        THEN /\ other.outcome = "return"
             /\ result.ret.buy_score = other.buy_score
             /\ result.ret.sell_score = other.sell_score
             /\ result.ret.reasons = other.reasons
             /\ \A t \in RangeTags :
                    /\ ~InSeq(t, Tags(BuyConditions(snap, UsedRules)))
                    /\ ~InSeq(t, Tags(SellConditions(snap, UsedRules)))
        ELSE other.outcome = "raise"

\* C16 witness: a result for a snapshot whose 52-week high and low are equal and not 0,
\* with a price above them
C16_Witness ==
    /\ Scored
    /\ DegenerateRange(snap)
    /\ Truthy(fifty_two_week_high(snap))
    /\ current_price(snap).v > fifty_two_week_low(snap).v

\* the integer risk score of the claim: any present RSI below 25 or above 75 adds 1
RiskScoreAsStated(s) ==
    (IF beta(s).st = "val" /\ beta(s).v > 150 THEN 2
     ELSE IF beta(s).st = "val" /\ beta(s).v > 120 THEN 1 ELSE 0)
    + (IF debt_to_equity(s).st = "val" /\ debt_to_equity(s).v > 200 THEN 2
       ELSE IF debt_to_equity(s).st = "val" /\ debt_to_equity(s).v > 100 THEN 1 ELSE 0)
    + (IF rsi(s).st = "val" /\ (rsi(s).v < 25 \/ rsi(s).v > 75) THEN 1 ELSE 0)

\* C17: for BUY and HOLD results risk_level classifies the integer score (beta > 1.5
\* adds 2, else beta > 1.2 adds 1; debtToEquity > 2.0 adds 2, else > 1.0 adds 1; a
\* present RSI below 25 or above 75 adds 1): High iff >= 4, Medium iff 2 or 3, else Low.
C17_RiskClassification ==
    (Scored /\ result.ret.signal \in {"BUY", "HOLD"}) =>
        result.ret.risk_level =
            IF RiskScoreAsStated(snap) >= 4 THEN "High"
            ELSE IF RiskScoreAsStated(snap) >= 2 THEN "Medium"
            ELSE "Low"

\* C18: for every SELL or HOLD result with a current price present the swing plan
\* carries no numeric level: there is no plan, or its entry_price, target_price,
\* stop_loss, risk_reward_ratio and holding_period are null and its notes are filled.
C18_NoLevelsForSellHold ==
    (Scored /\ result.ret.signal \in {"SELL", "HOLD"} /\ current_price(snap).st = "val") =>
        \/ result.ret.swing_trade = <<>>
        \/ LET plan == result.ret.swing_trade[1] IN
           /\ plan.action = result.ret.signal
           /\ plan.entry_price = <<>>
           /\ plan.target_price = <<>>
           /\ plan.stop_loss = <<>>
           /\ plan.risk_reward_ratio = <<>>
           /\ plan.holding_period = <<>>
           /\ plan.notes # <<>>

\* C18 witness: a SELL result with a plan
C18_Witness ==
    /\ Scored
    /\ result.ret.signal = "SELL"
    /\ result.ret.swing_trade # <<>>
    /\ Len(result.ret.swing_trade[1].notes) >= 2

WithoutRsi(s) == [s EXCEPT !.rsi = Absent]

\* C19: a present RSI adds to buy_score 0.25 if RSI < 30, 70% of it (0.175) if
\* 30 <= RSI < 40, 30% of it (0.075) if 40 <= RSI < 50, and to sell_score 0.25 if
\* RSI > 70, 60% of it (0.15) if 60 < RSI <= 70; an RSI in [50, 60] adds nothing.  The
\* amounts are read off the decimal value of the returned scores against the scores of
\* the same snapshot without its RSI.
C19_RsiTiers ==
    (Scored /\ rsi(snap).st = "val") =>
        LET r == rsi(snap).v IN
        /\ result.ret.buy_score.n =
                BuyScore(WithoutRsi(snap), UsedRules).n
                + (IF r < 30 THEN 25000 ELSE IF r < 40 THEN 17500
                   ELSE IF r < 50 THEN 7500 ELSE 0)
        /\ result.ret.sell_score.n =
                SellScore(WithoutRsi(snap), UsedRules).n
                + (IF r > 70 THEN 25000 ELSE IF r > 60 THEN 15000 ELSE 0)

\* C19 witness: a result for RSI exactly 30 whose buy_score holds 0.175 for it
C19_Witness ==
    /\ Scored
    /\ rsi(snap) = Val(30)
    /\ result.ret.buy_score.n = BuyScore(WithoutRsi(snap), UsedRules).n + 17500

WithoutK(s) == [s EXCEPT !.k = Absent]

\* C20: a present field whose value is 0 counts as present: Stochastic %K = 0 earns the
\* BUY +0.05 oversold bonus, RSI = 0 enters a BUY plan at the current price and adds 1
\* to the risk score of a BUY or HOLD, and a current price of 0 still yields a plan.
C20_ZeroIsPresent ==
    Scored =>
        /\ (snap.stochastic = Dict /\ snap.k = Val(0)) =>
                result.ret.buy_score.n = BuyScore(WithoutK(snap), UsedRules).n + 5000
        /\ (HasBuyPlan /\ rsi(snap) = Val(0)) =>
                BuyPlanOf(result.ret).entry_price = <<current_price(snap).v * 100000>>
        /\ (result.ret.signal \in {"BUY", "HOLD"} /\ rsi(snap) = Val(0)) =>
                result.ret.risk_level =
                    IF RiskScoreAsStated(snap) >= 4 THEN "High"
                    ELSE IF RiskScoreAsStated(snap) >= 2 THEN "Medium"
                    ELSE "Low"
        /\ current_price(snap) = Val(0) => result.ret.swing_trade # <<>>

RsiTags ==
    {"buy_rsi_strongly_oversold", "buy_rsi_moderately_oversold", "buy_rsi_neutral_low",
     "sell_rsi_overbought", "sell_rsi_moderately_high"}

MacdTags ==
    {"buy_macd_strong_crossover", "buy_macd_bullish", "buy_macd_histogram",
     "sell_macd_strong_crossover", "sell_macd_bearish"}

\* no fired condition of either side carries a tag of T
NoneFired(s, rules, T) ==
    /\ \A i \in 1..Len(BuyConditions(s, rules)) : BuyConditions(s, rules)[i].tag \notin T
    /\ \A i \in 1..Len(SellConditions(s, rules)) : SellConditions(s, rules)[i].tag \notin T

\* C21: a category whose required fields are absent adds nothing to the scores and no
\* entry to the reasons: with RSI absent no RSI condition fires, with the MACD line or
\* signal absent no MACD condition fires, and in both cases the reasons of the result
\* hold no entry for the absent field.
C21_SilentSkip ==
    Scored =>
        /\ IsNone(rsi(snap)) =>
                /\ NoneFired(snap, UsedRules, RsiTags)
                /\ ~InSeq("missing_data", result.ret.reasons)
        /\ (IsNone(macd_line(snap)) \/ IsNone(signal_line(snap))) =>
                /\ NoneFired(snap, UsedRules, MacdTags)
                /\ ~InSeq("missing_data", result.ret.reasons)

WithoutPercentB(s) == [s EXCEPT !.percent_b = Absent]

\* C22: whenever Bollinger %B is present the bonus depends on %B alone, with or without
\* a current price: %B < 0.2 adds 0.05 to buy_score, 0.2 <= %B < 0.4 adds 0.02,
\* %B > 0.8 adds 0.05 to sell_score, 0.6 < %B <= 0.8 adds 0.02.  The amounts are read
\* off the decimal value of the returned scores against the scores of the same
\* snapshot without its %B.
C22_PercentBAlone ==
    (Scored /\ snap.bollinger = Dict /\ snap.percent_b.st = "val") =>
        LET b == snap.percent_b.v IN
        /\ result.ret.buy_score.n =
                BuyScore(WithoutPercentB(snap), UsedRules).n
                + (IF b < 20 THEN 5000 ELSE IF b < 40 THEN 2000 ELSE 0)
        /\ result.ret.sell_score.n =
                SellScore(WithoutPercentB(snap), UsedRules).n
                + (IF b > 80 THEN 5000 ELSE IF b > 60 THEN 2000 ELSE 0)

WithoutMacd(s) == [s EXCEPT !.macd_macd = Absent, !.macd_signal = Absent]

\* what the claim has MACD add to buy_score, in 1e-5
MacdBuyAmount(s) ==
    IF IsNone(macd_line(s)) \/ IsNone(signal_line(s)) THEN 0
    ELSE IF macd_line(s).v > signal_line(s).v
         THEN (IF macd_line(s).v - signal_line(s).v > 50 THEN 25000 ELSE 15000)
              + (IF macd_histogram(s).st = "val" /\ macd_histogram(s).v > 0 THEN 5000 ELSE 0)
    ELSE 0

\* what the claim has MACD add to sell_score, in 1e-5
MacdSellAmount(s) ==
    IF IsNone(macd_line(s)) \/ IsNone(signal_line(s)) THEN 0
    ELSE IF macd_line(s).v < signal_line(s).v
         THEN (IF signal_line(s).v - macd_line(s).v > 50 THEN 25000 ELSE 15000)
    ELSE 0

\* C23: MACD contributes only when both the line and the signal are present: line >
\* signal adds 0.25 to buy_score if the gap exceeds 0.5, else 0.15, plus 0.05 if the
\* histogram is > 0; line < signal adds 0.25 or 0.15 to sell_score by the same split;
\* line = signal, or one of the two without the other, adds nothing to either side, and
\* a call with one without the other raises only if it raises without both.  The
\* amounts are read off the decimal value of the returned scores against the scores of
\* the same snapshot without the line and the signal.
C23_MacdBothOrNothing ==
    /\ Scored =>
        /\ result.ret.buy_score.n =
                BuyScore(WithoutMacd(snap), UsedRules).n + MacdBuyAmount(snap)
        /\ result.ret.sell_score.n =
                SellScore(WithoutMacd(snap), UsedRules).n + MacdSellAmount(snap)
    /\ (result.by \in Engines /\ result.ret.outcome = "raise"
        /\ IsNone(macd_line(snap)) # IsNone(signal_line(snap))) =>
            SignalEngine_generate_signal(WithoutMacd(snap), UsedRules).outcome = "raise"

\* C23 witness: a result for a snapshot with the MACD line and a positive histogram but
\* no signal, whose scores are those without the line
C23_Witness ==
    /\ Scored
    /\ ~IsNone(macd_line(snap))
    /\ IsNone(signal_line(snap))
    /\ macd_histogram(snap).st = "val" /\ macd_histogram(snap).v > 0
    /\ result.ret.buy_score = BuyScore(WithoutMacd(snap), UsedRules)
    /\ result.ret.sell_score = SellScore(WithoutMacd(snap), UsedRules)

\* the place of a side reason in the evaluation order of the claim: sentiment, RSI,
\* MACD, MACD histogram, 52-week position, valuation, volume, then the Bollinger,
\* Stochastic, moving-average and ADX bonuses; 0 for an entry that is no side reason
\* (the SELL side's risk-factor line comes where the BUY side has valuation)
Rank(t) ==
    CASE t \in {"buy_sentiment_strong", "buy_sentiment_moderate",
                "sell_sentiment_negative", "sell_sentiment_moderate"} -> 1
      [] t \in RsiTags -> 2
      [] t \in MacdTags \ {"buy_macd_histogram"} -> 3
      [] t = "buy_macd_histogram" -> 4
      [] t \in RangeTags -> 5
      [] t \in {"buy_pe_attractive", "buy_pe_reasonable", "sell_risk_factors"} -> 6
      [] t = "buy_high_volume" -> 7
      [] t \in {"buy_bb_oversold", "buy_bb_below_midpoint",
                "sell_bb_overbought", "sell_bb_above_midpoint"} -> 8
      [] t \in {"buy_stochastic_oversold", "buy_stochastic_low",
                "sell_stochastic_overbought", "sell_stochastic_high"} -> 9
      [] t \in {"buy_above_sma_20_50", "buy_above_sma_20",
                "sell_below_sma_20_50", "sell_below_sma_20"} -> 10
      [] t \in {"buy_strong_uptrend", "sell_strong_downtrend"} -> 11
      [] OTHER -> 0

IsSideReason(t) == Rank(t) > 0

InOrder(q) == \A i \in 1..(Len(q) - 1) : Rank(q[i]) < Rank(q[i + 1])

\* the side reasons among the reasons of a result
SideReasons(r) == SelectSeq(r.reasons, IsSideReason)

\* the conditions that fired on the side of the signal
FiredOn(signal, s, rules) ==
    IF signal = "BUY" THEN Tags(BuyConditions(s, rules)) ELSE Tags(SellConditions(s, rules))

\* C24: the reasons of each side are listed in the fixed evaluation order; a strong
\* BUY/SELL result includes all reasons of its side in that order, and a moderate
\* BUY/SELL result exactly the first three of them (all of them when fewer fired).
C24_ReasonOrder ==
    (Scored /\ result.ret.signal \in {"BUY", "SELL"}) =>
        /\ InOrder(Tags(BuyConditions(snap, UsedRules)))
        /\ InOrder(Tags(SellConditions(snap, UsedRules)))
        /\ InOrder(SideReasons(result.ret))
        /\ SideReasons(result.ret) =
                IF StrongRow(result.ret.buy_score, result.ret.sell_score)
                THEN FiredOn(result.ret.signal, snap, UsedRules)
                ELSE Take(FiredOn(result.ret.signal, snap, UsedRules), 3)

\* C24 witness: a moderate BUY for which more than three conditions fired, among them
\* a bonus, and whose reasons hold three side reasons
C24_Witness ==
    /\ Scored
    /\ result.ret.signal = "BUY"
    /\ ~StrongRow(result.ret.buy_score, result.ret.sell_score)
    /\ Len(BuyConditions(snap, UsedRules)) > 3
    /\ BuyBollinger(snap) \o BuyStochastic(snap) \o BuyMovingAverages(snap) \o BuyAdx(snap) # <<>>
    /\ Len(SideReasons(result.ret)) = 3

\* C25: in a BUY plan the entry price is the current price whenever a present RSI is
\* < 40 or the current price is less than 2% above the lower Bollinger band; otherwise
\* it is min(0.98 x current price, SMA-20) when SMA-20 is present and 0.98 x current
\* price when it is not.
C25_EntryRule ==
    HasBuyPlan =>
        LET p == current_price(snap).v IN
        BuyPlanOf(result.ret).entry_price =
            <<IF \/ rsi(snap).st = "val" /\ rsi(snap).v < 40
                 \/ bb_lower(snap).st = "val" /\ 100 * p < 102 * bb_lower(snap).v
              THEN p * 100000
              ELSE IF sma_20(snap).st = "val" THEN Min(p * 98000, sma_20(snap).v * 100000)
              ELSE p * 98000>>

RangeNotes == {"near_52w_low", "near_52w_high", "mid_range"}

\* C26: in a HOLD plan a 52-week-range note (near low / near high / mid-range) is
\* emitted only if both 52-week bounds are present and unequal; when the high equals
\* the low the plan's notes hold no such note.
C26_RangeNoteNeedsRange ==
    (/\ Scored
     /\ result.ret.swing_trade # <<>>
     /\ result.ret.swing_trade[1].action = "HOLD"
     /\ \E t \in RangeNotes : InSeq(t, result.ret.swing_trade[1].notes)) =>
        /\ fifty_two_week_high(snap).st = "val"
        /\ fifty_two_week_low(snap).st = "val"
        /\ fifty_two_week_high(snap).v # fifty_two_week_low(snap).v

\* C27: the signal agrees with the order of the scores: BUY implies buy_score >
\* sell_score, SELL implies sell_score > buy_score, and buy_score = sell_score implies
\* HOLD, also when both scores are at or above 0.65.
C27_SignalFollowsScores ==
    Scored =>
        /\ result.ret.signal = "BUY" => FLess(result.ret.sell_score, result.ret.buy_score)
        /\ result.ret.signal = "SELL" => FLess(result.ret.buy_score, result.ret.sell_score)
        /\ result.ret.buy_score = result.ret.sell_score => result.ret.signal = "HOLD"

\* C27 witness: a HOLD for two equal scores at or above 0.65
C27_Witness ==
    /\ Scored
    /\ result.ret.buy_score = result.ret.sell_score
    /\ AtLeast(result.ret.buy_score, 65000)
    /\ result.ret.signal = "HOLD"

\* C28: in every BUY plan the levels are ordered stop_loss < entry_price < target_price,
\* whichever of ATR, Bollinger bands, SMA-20, SMA-50 and 52-week high/low are present.
C28_LevelsOrdered ==
    HasBuyPlan =>
        /\ BuyPlanOf(result.ret).stop_loss[1] < BuyPlanOf(result.ret).entry_price[1]
        /\ BuyPlanOf(result.ret).entry_price[1] < BuyPlanOf(result.ret).target_price[1]

\* C29: under the default rules no indicator shared by the two sides (sentiment, RSI,
\* MACD, 52-week position, Bollinger %B, Stochastic %K, moving-average flags, ADX
\* direction) adds to buy_score and to sell_score for the same snapshot, the returned
\* scores being the sums of what the indicators add.
C29_OneSidePerIndicator ==
    (Scored /\ UsedRules = DefaultRules) =>
        /\ result.ret.buy_score = BuyScore(snap, UsedRules)
        /\ result.ret.sell_score = SellScore(snap, UsedRules)
        /\ BuySentiment(snap, UsedRules) = <<>> \/ SellSentiment(snap, UsedRules) = <<>>
        /\ BuyRsi(snap) = <<>> \/ SellRsi(snap) = <<>>
        /\ BuyMacd(snap) = <<>> \/ SellMacd(snap) = <<>>
        /\ BuyMomentum(snap) = <<>> \/ SellOverextension(snap) = <<>>
        /\ BuyBollinger(snap) = <<>> \/ SellBollinger(snap) = <<>>
        /\ BuyStochastic(snap) = <<>> \/ SellStochastic(snap) = <<>>
        /\ BuyMovingAverages(snap) = <<>> \/ SellMovingAverages(snap) = <<>>
        /\ BuyAdx(snap) = <<>> \/ SellAdx(snap) = <<>>

\* C29 witness: a result under the default rules with both scores at or above 0.45,
\* sentiment, RSI and %B on the BUY side and MACD, the 52-week position, %K and the
\* moving averages on the SELL side
C29_Witness ==
    /\ Scored
    /\ UsedRules = DefaultRules
    /\ AtLeast(result.ret.buy_score, 45000)
    /\ AtLeast(result.ret.sell_score, 45000)
    /\ BuySentiment(snap, UsedRules) # <<>> /\ BuyRsi(snap) # <<>> /\ BuyBollinger(snap) # <<>>
    /\ SellMacd(snap) # <<>> /\ SellOverextension(snap) # <<>>
    /\ SellStochastic(snap) # <<>> /\ SellMovingAverages(snap) # <<>>

\* the fields of an engine result
EngineFields ==
    {"signal", "confidence", "reasons", "risk_level", "news_count", "buy_score", "sell_score",
     "swing_trade"}

\* C30: generate_signal(symbol, ...) never propagates an exception: where the engine raises
\* for the snapshot it returns success False, signal ERROR, confidence 0.5 and risk_level
\* High for that symbol; otherwise it returns the engine's result, field by field, with
\* success True and the symbol attached.
C30_ModuleNeverRaises ==
    [][\A symbol \in Symbols :
          ModuleGenerate(symbol) =>
              LET r == SignalEngine_generate_signal(snap, SIGNAL_RULES)
                  m == result'.ret
              IN  /\ m.outcome = "return"
                  /\ m.symbol = symbol
                  /\ IF r.outcome = "raise"
                     THEN /\ m.success = FALSE
                          /\ m.signal = "ERROR"
                          /\ m.confidence = Double(50000)
                          /\ m.risk_level = "High"
                     ELSE /\ m.success = TRUE
                          /\ \A f \in EngineFields : m[f] = r[f]]_vars

\* C30 witness: the module function has answered for MSFT with the ERROR record, the
\* engine raising for the snapshot
C30_Witness ==
    /\ result.by = "module"
    /\ result.ret.outcome = "return"
    /\ result.ret.signal = "ERROR"
    /\ result.ret.success = FALSE
    /\ result.ret.symbol = "MSFT"
    /\ SignalEngine_generate_signal(snap, SIGNAL_RULES).outcome = "raise"

====
